---- MODULE Spec2Model ----
(***************************************************************************)
(* Model of linguist-color-checker (main.go): the hex -> RGB -> XYZ -> LAB *)
(* conversion, the CIE94 colour difference, the all-pairs ranking and the  *)
(* threshold filter of the report.                                         *)
(*                                                                         *)
(* Strings are sequences of one-character strings, so that len(s), s[1:]   *)
(* and hex decoding are computed character by character.                   *)
(*                                                                         *)
(* float64 values are fixed-point integers:                                *)
(*   - linear RGB channels (vR, vG, vB) in 1/100,                          *)
(*   - XYZ in 1/1000000,                                                   *)
(*   - the ratios X/rX, Y/rY, Z/rZ in 1/10000, their Norm in 1/1000,       *)
(*   - LAB, chroma and every colour difference in 1/100,                   *)
(*   - the scaling factors xSC, xSH in 1/1000.                             *)
(* math.Sqrt and the cube root are integer roots (rounded down); math.Pow  *)
(* with exponent 2.4 is tabulated over the 256 channel values.  The only   *)
(* non-finite float64 of the program is a NaN threshold (flag.Float64Var   *)
(* parses "NaN"); it is kept as a flag beside the value.                   *)
(***************************************************************************)
EXTENDS Integers, Sequences, FiniteSets, TLC

VARIABLES
    languages,      \* map name -> colour string (the parsed yaml)
    args,           \* flag.Args(): the requested names
    diffThreshold,  \* -threshold, [nan |-> BOOLEAN, v |-> Int]
    pc,             \* position in main / in the function under call
    todo,           \* names the conversion loop has not visited yet
    tfc,            \* []LanguageColor
    ri,             \* index of the ranking loop into tfc
    tfcd,           \* map name -> []LanguageColorDiff
    langs,          \* names to report
    pi,             \* index of the report loop into langs
    filtered,       \* the filtered list of every report iteration so far
    out,            \* the entries written to the report
    run,            \* 1 for the first run of the program, 2 for the second
    prev,           \* tfcd of the first run
    arg,            \* argument of the function under call
    ret             \* its result

vars == <<languages, args, diffThreshold, pc, todo, tfc, ri, tfcd, langs, pi,
          filtered, out, run, prev, arg, ret>>

----------------------------------------------------------------------------
(* Integer helpers for the fixed-point arithmetic.                         *)

RECURSIVE SqrtSearch(_, _, _)
SqrtSearch(n, lo, hi) ==
    IF lo >= hi THEN lo
    ELSE LET mid == (lo + hi + 1) \div 2
         IN  IF mid * mid <= n THEN SqrtSearch(n, mid, hi)
                               ELSE SqrtSearch(n, lo, mid - 1)

\* math.Sqrt on a fixed-point value with an even scale: the largest r
\* with r*r <= n.
Sqrt(n) == SqrtSearch(n, 0, 46340)

RECURSIVE CbrtSearch(_, _, _)
CbrtSearch(n, lo, hi) ==
    IF lo >= hi THEN lo
    ELSE LET mid == (lo + hi + 1) \div 2
         IN  IF mid * mid * mid <= n THEN CbrtSearch(n, mid, hi)
                                     ELSE CbrtSearch(n, lo, mid - 1)

\* math.Pow(n, 1.0/3.0): the largest r with r*r*r <= n.
Cbrt(n) == CbrtSearch(n, 0, 1290)

\* float64 division keeps the sign of the dividend (b > 0).
Quot(a, b) == IF a >= 0 THEN a \div b ELSE -((-a) \div b)

Range(s) == {s[i] : i \in 1..Len(s)}

----------------------------------------------------------------------------
(* HexToRGB                                                                *)

HexDigits == <<"0", "1", "2", "3", "4", "5", "6", "7", "8", "9">>
HexLower  == <<"a", "b", "c", "d", "e", "f">>
HexUpper  == <<"A", "B", "C", "D", "E", "F">>

\* encoding/hex fromHexChar: [ok, v].
FromHexChar(c) ==
    IF \E i \in 1..10 : HexDigits[i] = c
        THEN [ok |-> TRUE, v |-> (CHOOSE i \in 1..10 : HexDigits[i] = c) - 1]
    ELSE IF \E i \in 1..6 : HexLower[i] = c
        THEN [ok |-> TRUE, v |-> (CHOOSE i \in 1..6 : HexLower[i] = c) + 9]
    ELSE IF \E i \in 1..6 : HexUpper[i] = c
        THEN [ok |-> TRUE, v |-> (CHOOSE i \in 1..6 : HexUpper[i] = c) + 9]
    ELSE [ok |-> FALSE, v |-> 0]

\* encoding/hex DecodeString: every pair of characters is one byte; an
\* invalid character or an odd length is an error.
DecodeString(src) ==
    LET n == Len(src) \div 2
        bad == \E j \in 1..(2 * n) : ~FromHexChar(src[j]).ok
    IN  IF bad THEN [b |-> <<>>, err |-> "InvalidByte"]
        ELSE IF Len(src) % 2 = 1
            THEN IF ~FromHexChar(src[Len(src)]).ok
                    THEN [b |-> <<>>, err |-> "InvalidByte"]
                    ELSE [b |-> <<>>, err |-> "ErrLength"]
        ELSE [b |-> [i \in 1..n |->
                        16 * FromHexChar(src[2 * i - 1]).v + FromHexChar(src[2 * i]).v],
              err |-> "nil"]

NoRGB == [R |-> 0, G |-> 0, B |-> 0]

HexToRGBSwapped(s) ==
    IF Len(s) # 7 THEN [rgb |-> NoRGB, err |-> "InvalidFormat"]
    ELSE LET d == DecodeString(SubSeq(s, 2, Len(s)))
         IN  IF d.err # "nil" THEN [rgb |-> NoRGB, err |-> "InvalidHex"]
             ELSE IF Len(d.b) # 3 THEN [rgb |-> NoRGB, err |-> "InvalidHex"]
             ELSE [rgb |-> [R |-> d.b[3], G |-> d.b[2], B |-> d.b[1]], err |-> "nil"]

\* len(s) counts bytes; every character of the model is one byte.
HexToRGB(s) ==
    IF Len(s) # 7 THEN [rgb |-> NoRGB, err |-> "InvalidFormat"]
    ELSE LET d == DecodeString(SubSeq(s, 2, Len(s)))
         IN  IF d.err # "nil" THEN [rgb |-> NoRGB, err |-> "InvalidHex"]
             ELSE IF Len(d.b) # 3 THEN [rgb |-> NoRGB, err |-> "InvalidHex"]
             ELSE [rgb |-> [R |-> d.b[1], G |-> d.b[2], B |-> d.b[3]], err |-> "nil"]

----------------------------------------------------------------------------
(* RGBToXYZ                                                                *)

\* math.Pow((n+0.055)/1.055, 2.4) * 100 for n = c/255, c = 0..255, in 1/100
\* (entry c+1).
PowTable == <<
    8, 10, 11, 13, 15, 17, 20, 22, 25, 27, 30, 33, 37, 40, 44, 48,
    52, 56, 60, 65, 70, 75, 80, 86, 91, 97, 103, 110, 116, 123, 130, 137,
    144, 152, 160, 168, 176, 185, 194, 203, 212, 222, 232, 242, 252, 262, 273, 284,
    296, 307, 319, 331, 343, 356, 369, 382, 395, 409, 423, 437, 452, 467, 482, 497,
    513, 529, 545, 561, 578, 595, 612, 630, 648, 666, 685, 704, 723, 742, 762, 782,
    802, 823, 844, 865, 887, 908, 931, 953, 976, 999, 1022, 1046, 1070, 1095, 1119, 1144,
    1170, 1195, 1221, 1248, 1274, 1301, 1329, 1356, 1384, 1413, 1441, 1470, 1500, 1529, 1559, 1590,
    1620, 1651, 1683, 1714, 1746, 1779, 1812, 1845, 1878, 1912, 1946, 1981, 2016, 2051, 2086, 2122,
    2159, 2195, 2232, 2270, 2307, 2346, 2384, 2423, 2462, 2502, 2542, 2582, 2623, 2664, 2705, 2747,
    2789, 2831, 2874, 2918, 2961, 3005, 3050, 3095, 3140, 3185, 3231, 3278, 3325, 3372, 3419, 3467,
    3515, 3564, 3613, 3663, 3712, 3763, 3813, 3864, 3916, 3968, 4020, 4072, 4125, 4179, 4233, 4287,
    4342, 4397, 4452, 4508, 4564, 4621, 4678, 4735, 4793, 4851, 4910, 4969, 5029, 5089, 5149, 5210,
    5271, 5333, 5395, 5457, 5520, 5583, 5647, 5711, 5776, 5841, 5906, 5972, 6038, 6105, 6172, 6240,
    6308, 6376, 6445, 6514, 6584, 6654, 6724, 6795, 6867, 6939, 7011, 7084, 7157, 7231, 7305, 7379,
    7454, 7529, 7605, 7682, 7758, 7835, 7913, 7991, 8070, 8148, 8228, 8308, 8388, 8469, 8550, 8632,
    8714, 8796, 8879, 8963, 9047, 9131, 9216, 9301, 9387, 9473, 9560, 9647, 9734, 9823, 9911, 10000 >>

\* Norm(float64(c)/255) * 100, in 1/100.  n > 0.04045 is c * 100000 > 4045 * 255.
NormRGB(c) ==
    IF c * 100000 > 4045 * 255
        THEN PowTable[c + 1]
        ELSE (c * 1000000) \div (255 * 1292)

\* XYZ in 1/1000000.
RGBToXYZ(c) ==
    LET vR == NormRGB(c.R)
        vG == NormRGB(c.G)
        vB == NormRGB(c.B)
    IN  [X |-> vR * 4124 + vG * 3576 + vB * 1805,
         Y |-> vR * 2126 + vG * 7152 + vB * 722,
         Z |-> vR * 193 + vG * 1192 + vB * 9505]

----------------------------------------------------------------------------
(* XYZToLAB                                                                *)

\* The reference white, in 1/1000.
rX == 93369
rY == 100000
rZ == 98636

\* Norm of XYZToLAB on a ratio n in 1/10000, result in 1/1000.
\* n > 0.008856 is n * 100 > 8856.
NormXYZ(n) ==
    IF n * 100 > 8856
        THEN Cbrt(n * 100000)
        ELSE (7787 * n) \div 10000 + 16000 \div 116

\* LAB in 1/100.
XYZToLAB(c) ==
    LET vX == NormXYZ((c.X * 10) \div rX)
        vY == NormXYZ((c.Y * 10) \div rY)
        vZ == NormXYZ((c.Z * 10) \div rZ)
    IN  [L |-> Quot(116 * vY - 16000, 10),
         A |-> 50 * (vX - vY),
         B |-> 20 * (vY - vZ)]

----------------------------------------------------------------------------
(* CIE94Diff                                                               *)

\* Weighting factors.
wL == 1
wC == 1
wH == 1

Chroma(c) == Sqrt(c.A * c.A + c.B * c.B)

\* The Euclidean distance xDE.
DeltaE(c1, c2) ==
    Sqrt((c1.L - c2.L) * (c1.L - c2.L)
         + (c1.A - c2.A) * (c1.A - c2.A)
         + (c1.B - c2.B) * (c1.B - c2.B))

\* CIE94Diff with SC and SH taken from the chroma of the second colour.
CIE94DiffSecondChroma(c1, c2) ==
    LET xC1  == Chroma(c1)
        xC2  == Chroma(c2)
        xDL  == c2.L - c1.L
        xDC  == xC2 - xC1
        xDE  == DeltaE(c1, c2)
        xDH2 == (xDE * xDE) - (xDL * xDL) - (xDC * xDC)
        xDH  == IF xDH2 > 0 THEN Sqrt(xDH2) ELSE 0
        xSC  == 1000 + (45 * xC2) \div 100
        xSH  == 1000 + (15 * xC2) \div 100
        sDL  == Quot(xDL, wL)
        sDC  == Quot(xDC * 1000, wC * xSC)
        sDH  == Quot(xDH * 1000, wH * xSH)
    IN  Sqrt(sDL * sDL + sDC * sDC + sDH * sDH)

\* CIE94Diff with the chroma difference taken as a sum.
CIE94DiffChromaSum(c1, c2) ==
    LET xC1  == Chroma(c1)
        xC2  == Chroma(c2)
        xDL  == c2.L - c1.L
        xDC  == xC2 + xC1
        xDE  == DeltaE(c1, c2)
        xDH2 == (xDE * xDE) - (xDL * xDL) - (xDC * xDC)
        xDH  == IF xDH2 > 0 THEN Sqrt(xDH2) ELSE 0
        xSC  == 1000 + (45 * xC1) \div 100
        xSH  == 1000 + (15 * xC1) \div 100
        sDL  == Quot(xDL, wL)
        sDC  == Quot(xDC * 1000, wC * xSC)
        sDH  == Quot(xDH * 1000, wH * xSH)
    IN  Sqrt(sDL * sDL + sDC * sDC + sDH * sDH)

\* xSC and xSH are in 1/1000; the scaled terms sDL, sDC, sDH are the
\* values of xDL, xDC, xDH after the three divisions.
CIE94Diff(c1, c2) ==
    LET xC1  == Chroma(c1)
        xC2  == Chroma(c2)
        xDL  == c2.L - c1.L
        xDC  == xC2 - xC1
        xDE  == DeltaE(c1, c2)
        xDH2 == (xDE * xDE) - (xDL * xDL) - (xDC * xDC)
        xDH  == IF xDH2 > 0 THEN Sqrt(xDH2) ELSE 0
        xSC  == 1000 + (45 * xC1) \div 100
        xSH  == 1000 + (15 * xC1) \div 100
        sDL  == Quot(xDL, wL)
        sDC  == Quot(xDC * 1000, wC * xSC)
        sDH  == Quot(xDH * 1000, wH * xSH)
    IN  Sqrt(sDL * sDL + sDC * sDC + sDH * sDH)

----------------------------------------------------------------------------
(* main                                                                    *)

\* The names of the yaml file, and a requested name that is not in it.
Names == {"A", "B", "C"}
NameOrder == <<"A", "B", "C", "Z">>

\* The most names given on the command line.
MaxArgs == 1

\* Names given on the command line: one of the file, one not in it.
ArgNames == {"A", "Z"}

ArgLists == UNION {[1..n -> ArgNames] : n \in 0..MaxArgs}

\* "#FF0000", "#FE0000", "#00FF00", "notacolor", "0FF0000"
Red       == <<"#", "F", "F", "0", "0", "0", "0">>
NearRed   == <<"#", "F", "E", "0", "0", "0", "0">>
Green     == <<"#", "0", "0", "F", "F", "0", "0">>
NotAColor == <<"n", "o", "t", "a", "c", "o", "l", "o", "r">>
NoHashRed == <<"0", "F", "F", "0", "0", "0", "0">>

Colors == {Red, NearRed, Green, NotAColor, NoHashRed}

\* -threshold: 0, the default 10, and NaN.
Thresholds ==
    {[nan |-> FALSE, v |-> 0], [nan |-> FALSE, v |-> 1000], [nan |-> TRUE, v |-> 0]}

\* float64 d >= t: false when t is NaN.
Ge(d, t) == ~t.nan /\ d >= t.v

\* tfcd[lang]: the nil slice for a missing key.
TfcdGet(m, lang) == IF lang \in DOMAIN m THEN m[lang] ELSE <<>>

MapPut(m, k, v) == [x \in DOMAIN m \cup {k} |-> IF x = k THEN v ELSE m[x]]

\* The inner loop of the ranking with the arguments of CIE94Diff exchanged.
PairDiffsSwapped(lang, colors) ==
    LET others == SelectSeq(colors, LAMBDA c : c.Name # lang.Name)
    IN  [i \in 1..Len(others) |->
            [Name |-> others[i].Name, Diff |-> CIE94Diff(others[i].Color, lang.Color)]]

\* The inner loop of the ranking: one entry for every other element of tfc.
PairDiffs(lang, colors) ==
    LET others == SelectSeq(colors, LAMBDA c : c.Name # lang.Name)
    IN  [i \in 1..Len(others) |->
            [Name |-> others[i].Name, Diff |-> CIE94Diff(lang.Color, others[i].Color)]]

LessDescending(a, b) == a.Diff > b.Diff

LessNever(a, b) == FALSE

\* The less function given to sort.Slice.
Less(a, b) == a.Diff < b.Diff

\* sort.Slice: a permutation of the slice that is ordered by Less; the sort
\* is not stable, so any such permutation may be the result.
SortSlice(s) ==
    LET n == Len(s)
        perms == {f \in [1..n -> 1..n] : \A i, j \in 1..n : i # j => f[i] # f[j]}
    IN  {[i \in 1..n |-> s[f[i]]] : f \in
            {g \in perms : \A i, j \in 1..n : i < j => ~Less(s[g[j]], s[g[i]])}}

\* sort.Strings of the names of the map.
RECURSIVE SortStringsFrom(_, _)
SortStringsFrom(S, i) ==
    IF i > Len(NameOrder) THEN <<>>
    ELSE (IF NameOrder[i] \in S THEN <<NameOrder[i]>> ELSE <<>>)
         \o SortStringsFrom(S, i + 1)

SortStrings(S) == SortStringsFrom(S, 1)

\* The filter loop from position i: stop at the first entry >= threshold.
RECURSIVE FilterFrom(_, _, _)
FilterFrom(diffs, i, t) ==
    IF i > Len(diffs) THEN <<>>
    ELSE IF Ge(diffs[i].Diff, t) THEN <<>>
    ELSE <<diffs[i]>> \o FilterFrom(diffs, i + 1, t)

Init ==
    /\ languages \in [Names -> Colors]
    /\ args \in ArgLists
    /\ diffThreshold \in Thresholds
    /\ pc = "convert"
    /\ todo = Names
    /\ tfc = <<>>
    /\ ri = 1
    /\ tfcd = <<>>
    /\ langs = <<>>
    /\ pi = 1
    /\ filtered = <<>>
    /\ out = <<>>
    /\ run = 1
    /\ prev = <<>>
    /\ arg = <<>>
    /\ ret = <<>>

\* One iteration of the conversion loop; a map is ranged over in any order.
ConvertStep ==
    /\ pc = "convert"
    /\ \E lang \in todo :
        LET r == HexToRGB(languages[lang])
        IN  /\ tfc' = IF r.err # "nil" THEN tfc
                      ELSE Append(tfc, [Name |-> lang,
                                        Color |-> XYZToLAB(RGBToXYZ(r.rgb))])
            /\ todo' = todo \ {lang}
            /\ pc' = IF todo \ {lang} = {} THEN "rank" ELSE "convert"
    /\ UNCHANGED <<languages, args, diffThreshold, ri, tfcd, langs, pi, filtered,
                   out, run, prev, arg, ret>>

\* One iteration of the ranking loop: the differences, the sort, the store.
RankStep ==
    /\ pc = "rank"
    /\ ri <= Len(tfc)
    /\ \E diffs \in SortSlice(PairDiffs(tfc[ri], tfc)) :
        tfcd' = MapPut(tfcd, tfc[ri].Name, diffs)
    /\ ri' = ri + 1
    /\ UNCHANGED <<languages, args, diffThreshold, pc, todo, tfc, langs, pi,
                   filtered, out, run, prev, arg, ret>>

\* The names to report: the requested ones, or every name of the file, sorted.
ChooseLangs ==
    /\ pc = "rank"
    /\ ri > Len(tfc)
    /\ langs' = IF Len(args) # 0 THEN args ELSE SortStrings(DOMAIN languages)
    /\ pc' = "report"
    /\ UNCHANGED <<languages, args, diffThreshold, todo, tfc, ri, tfcd, pi,
                   filtered, out, run, prev, arg, ret>>

\* One iteration of the report loop: filter, skip when empty, else write.
ReportStep ==
    /\ pc = "report"
    /\ pi <= Len(langs)
    /\ LET f == FilterFrom(TfcdGet(tfcd, langs[pi]), 1, diffThreshold)
       IN  /\ filtered' = Append(filtered, f)
           /\ out' = IF Len(f) = 0 THEN out
                     ELSE Append(out, [lang |-> langs[pi], diffs |-> f])
    /\ pi' = pi + 1
    /\ UNCHANGED <<languages, args, diffThreshold, pc, todo, tfc, ri, tfcd, langs,
                   run, prev, arg, ret>>

Exit ==
    /\ pc = "report"
    /\ pi > Len(langs)
    /\ pc' = "done"
    /\ UNCHANGED <<languages, args, diffThreshold, todo, tfc, ri, tfcd, langs, pi,
                   filtered, out, run, prev, arg, ret>>

\* The program is run again on the same file with the same flags.
Rerun ==
    /\ pc = "done"
    /\ run = 1
    /\ run' = 2
    /\ prev' = tfcd
    /\ pc' = "convert"
    /\ todo' = DOMAIN languages
    /\ tfc' = <<>>
    /\ ri' = 1
    /\ tfcd' = <<>>
    /\ langs' = <<>>
    /\ pi' = 1
    /\ filtered' = <<>>
    /\ out' = <<>>
    /\ UNCHANGED <<languages, args, diffThreshold, arg, ret>>

Next ==
    \/ ConvertStep
    \/ RankStep
    \/ ChooseLangs
    \/ ReportStep
    \/ Exit
    \/ Rerun

Spec == Init /\ [][Next]_vars

----------------------------------------------------------------------------
(* Calls of the pure functions on inputs drawn from bounded sets.          *)

\* The longest colour string drawn.
MaxLen == 8

\* '#', a digit, a hexadecimal letter and a letter that is not hexadecimal.
Alphabet == {"#", "0", "F", "G"}

HexInputs == UNION {[1..n -> Alphabet] : n \in 0..MaxLen}

\* Channel values drawn for the colours of CIE94Diff.
Channels == {0, 128, 255}

LABValues ==
    {XYZToLAB(RGBToXYZ([R |-> r, G |-> g, B |-> b])) :
        r \in Channels, g \in Channels, b \in Channels}
    \cup {[L |-> l, A |-> a, B |-> b] :
        l \in {0, 5000, 10000}, a \in {-8000, 0, 4000}, b \in {-8000, 0, 4000}}

\* main is not running.
MainIdle ==
    /\ languages = <<>>
    /\ args = <<>>
    /\ diffThreshold = [nan |-> FALSE, v |-> 0]
    /\ todo = {}
    /\ tfc = <<>>
    /\ ri = 1
    /\ tfcd = <<>>
    /\ langs = <<>>
    /\ pi = 1
    /\ filtered = <<>>
    /\ out = <<>>
    /\ run = 1
    /\ prev = <<>>

mainVars == <<languages, args, diffThreshold, todo, tfc, ri, tfcd, langs, pi,
              filtered, out, run, prev>>

InitHex ==
    /\ MainIdle
    /\ pc = "HexToRGB"
    /\ arg \in HexInputs
    /\ ret = <<>>

CallHexToRGB ==
    /\ pc = "HexToRGB"
    /\ ret' = HexToRGB(arg)
    /\ pc' = "returned"
    /\ UNCHANGED <<mainVars, arg>>

NextHex == CallHexToRGB

SpecHex == InitHex /\ [][NextHex]_vars

InitDiff ==
    /\ MainIdle
    /\ pc = "CIE94Diff"
    /\ arg \in [c1 : LABValues, c2 : LABValues]
    /\ ret = <<>>

\* Both directions of a pair, as the ranking loops compute them.
CallCIE94Diff ==
    /\ pc = "CIE94Diff"
    /\ ret' = [d12 |-> CIE94Diff(arg.c1, arg.c2), d21 |-> CIE94Diff(arg.c2, arg.c1)]
    /\ pc' = "returned"
    /\ UNCHANGED <<mainVars, arg>>

NextDiff == CallCIE94Diff

SpecDiff == InitDiff /\ [][NextDiff]_vars

----------------------------------------------------------------------------
(* Claims about HexToRGB (SpecHex).                                        *)

IsHexDigit(c) == c \in Range(HexDigits) \cup Range(HexLower) \cup Range(HexUpper)

\* The tail s[1:] is six hexadecimal digits.
TailIsHex(s) == \A i \in 2..Len(s) : IsHexDigit(s[i])

\* #RRGGBB
WellFormed(s) == Len(s) = 7 /\ s[1] = "#" /\ TailIsHex(s)

ByteAt(s, i) == 16 * FromHexChar(s[i]).v + FromHexChar(s[i + 1]).v

\* C2: HexToRGB accepts a string only if it is exactly 7 characters long,
\* starts with '#' and continues with 6 hexadecimal digits.
C2_AcceptsOnlyWellFormed ==
    (pc = "returned" /\ ret.err = "nil") => WellFormed(arg)

\* C3: a length other than 7 fails with InvalidFormat; length 7 with a tail
\* that is not hexadecimal fails with InvalidHex; anything else succeeds with
\* the three decoded bytes as R, G, B in that order.
C3_OutcomeByOrderOfChecks ==
    pc = "returned" =>
        /\ Len(arg) # 7 => ret.err = "InvalidFormat"
        /\ (Len(arg) = 7 /\ ~TailIsHex(arg)) => ret.err = "InvalidHex"
        /\ (Len(arg) = 7 /\ TailIsHex(arg)) =>
                /\ ret.err = "nil"
                /\ ret.rgb = [R |-> ByteAt(arg, 2), G |-> ByteAt(arg, 4),
                              B |-> ByteAt(arg, 6)]

\* "#FF0000" has been parsed to RGB{255, 0, 0}.
C3_Witness ==
    /\ pc = "returned"
    /\ arg = <<"#", "F", "F", "0", "0", "0", "0">>
    /\ ret = [rgb |-> [R |-> 255, G |-> 0, B |-> 0], err |-> "nil"]

----------------------------------------------------------------------------
(* Claims about CIE94Diff (SpecDiff).                                      *)

\* C8: CIE94Diff(c, c) is exactly 0 for every colour c.
C8_Reflexive ==
    (pc = "returned" /\ arg.c1 = arg.c2) => ret.d12 = 0

\* A colour with chroma has been compared with itself.
C8_Witness ==
    /\ pc = "returned"
    /\ arg.c1 = arg.c2
    /\ Chroma(arg.c1) > 0
    /\ ret.d12 = 0

\* C10: SC and SH come from the chroma of the first argument only: with
\* equal chroma both directions agree, and otherwise the direction whose
\* first argument has the smaller chroma is scaled down less and is the
\* larger (or equal) difference; a first argument without chroma leaves the
\* difference unscaled (at equal lightness it is the Euclidean distance);
\* the unscaled terms are the same in both directions.
C10_FirstChromaScales ==
    pc = "returned" =>
        LET c1 == arg.c1
            c2 == arg.c2
        IN  /\ Chroma(c1) = Chroma(c2) => ret.d12 = ret.d21
            /\ Chroma(c1) < Chroma(c2) => ret.d12 >= ret.d21
            /\ Chroma(c1) > Chroma(c2) => ret.d12 <= ret.d21
            /\ (Chroma(c1) = 0 /\ c1.L = c2.L) => ret.d12 = DeltaE(c1, c2)
            /\ DeltaE(c1, c2) = DeltaE(c2, c1)

\* Two colours whose difference depends on the direction.
C10_Witness ==
    /\ pc = "returned"
    /\ Chroma(arg.c1) < Chroma(arg.c2)
    /\ ret.d12 > ret.d21

----------------------------------------------------------------------------
(* Claims about main (Spec).                                               *)

\* The colours of the input that HexToRGB parses, and their LAB values.
Parsed == {s \in Colors : HexToRGB(s).err = "nil"}

LABTable == [s \in Parsed |-> XYZToLAB(RGBToXYZ(HexToRGB(s).rgb))] @@ <<>>

\* CIE94Diff between every two of them, first argument first (@@ makes the
\* table an explicit function, computed once).
DiffTable ==
    [p \in Parsed \X Parsed |-> CIE94Diff(LABTable[p[1]], LABTable[p[2]])] @@ <<>>

\* The names whose colour HexToRGB parses.
Valid == {n \in DOMAIN languages : languages[n] \in Parsed}

Ranked == pc \in {"report", "done"}

\* float64 d < t: false when t is NaN.
Below(d, t) == ~t.nan /\ d < t.v

DiffsOf(s) == [i \in 1..Len(s) |-> s[i].Diff]

NamesAt(s, d) == {s[i].Name : i \in {j \in 1..Len(s) : s[j].Diff = d}}

Reported == {out[i].lang : i \in 1..Len(out)}

\* Every name that appears in the report, as an entry or as a neighbour.
Mentioned ==
    Reported \cup UNION {{out[i].diffs[k].Name : k \in 1..Len(out[i].diffs)} :
                            i \in 1..Len(out)}

\* C1: a name whose colour is not of the form #RRGGBB is skipped: it is not
\* ranked, and it appears in the report neither as an entry nor as a
\* neighbour; the names with a well-formed colour are ranked over each other.
C1_MalformedSkipped ==
    pc = "done" =>
        LET wf == {n \in DOMAIN languages : WellFormed(languages[n])}
        IN  /\ DOMAIN tfcd = wf
            /\ \A n \in wf : {tfcd[n][i].Name : i \in 1..Len(tfcd[n])} = wf \ {n}
            /\ Mentioned \subseteq wf

\* C4: after ranking, the list of every name with a parsed colour has
\* exactly one entry for every other such name, none for itself, and each
\* diff is CIE94Diff(colour of the name, colour of the other name).
C4_ListIsAllOthers ==
    Ranked =>
        /\ DOMAIN tfcd = Valid
        /\ \A n \in Valid :
            /\ Len(tfcd[n]) = Cardinality(Valid) - 1
            /\ {tfcd[n][i].Name : i \in 1..Len(tfcd[n])} = Valid \ {n}
            /\ \A i \in 1..Len(tfcd[n]) :
                tfcd[n][i].Diff = DiffTable[<<languages[n], languages[tfcd[n][i].Name]>>]

\* Three names are ranked and a difference depends on its direction.
C4_Witness ==
    /\ pc = "done"
    /\ Cardinality(Valid) = 3
    /\ \E n \in Valid : \E i \in 1..Len(tfcd[n]) :
        /\ tfcd[n][i].Diff = DiffTable[<<languages[n], languages[tfcd[n][i].Name]>>]
        /\ tfcd[n][i].Diff # DiffTable[<<languages[tfcd[n][i].Name], languages[n]>>]

\* C5: every ranked list is ascending by diff.
C5_Sorted ==
    \A n \in DOMAIN tfcd :
        \A i, j \in 1..Len(tfcd[n]) : i < j => tfcd[n][i].Diff <= tfcd[n][j].Diff

\* A list of two different diffs whose larger one came first in tfc.
C5_Witness ==
    /\ Ranked
    /\ \E n \in DOMAIN tfcd :
        /\ Len(tfcd[n]) = 2
        /\ tfcd[n][1].Diff < tfcd[n][2].Diff
        /\ \E i, j \in 1..Len(tfc) :
            /\ i < j
            /\ tfc[i].Name = tfcd[n][2].Name
            /\ tfc[j].Name = tfcd[n][1].Name

\* C6: the filter returns exactly the entries of the ranked list whose diff
\* is strictly below the threshold, in their ranked order.
C6_FilterIsBelowThreshold ==
    \A i \in 1..Len(filtered) :
        filtered[i] = SelectSeq(TfcdGet(tfcd, langs[i]),
                                LAMBDA e : Below(e.Diff, diffThreshold))

\* The same statement for the thresholds that are numbers.
FilterIsBelowNumericThreshold ==
    ~diffThreshold.nan => C6_FilterIsBelowThreshold

\* C7: a second run on the same input ranks the same names, with the same
\* sequence of diffs and the same names at each diff, for every name.
C7_SameRankingUpToTies ==
    (run = 2 /\ Ranked) =>
        /\ DOMAIN tfcd = DOMAIN prev
        /\ \A n \in DOMAIN tfcd :
            /\ DiffsOf(tfcd[n]) = DiffsOf(prev[n])
            /\ \A i \in 1..Len(tfcd[n]) :
                NamesAt(tfcd[n], tfcd[n][i].Diff) = NamesAt(prev[n], tfcd[n][i].Diff)

\* Two runs whose lists differ, in the order of a tie.
C7_Witness ==
    /\ run = 2
    /\ pc = "done"
    /\ tfcd # prev

\* Two names with the same parsed colour have diff 0 for each other, and
\* nothing but diff 0 stands before them in each other's list.
SameColourRanksFirst ==
    Ranked =>
        \A n \in Valid : \A i \in 1..Len(tfcd[n]) :
            languages[tfcd[n][i].Name] = languages[n] =>
                \A j \in 1..i : tfcd[n][j].Diff = 0

\* C9: a name is written to the report if and only if it is among the names
\* to report and has a neighbour whose diff is below the threshold.
C9_WrittenIffNeighbourBelow ==
    pc = "done" =>
        \A n \in Range(NameOrder) :
            n \in Reported <=>
                /\ n \in Range(langs)
                /\ \E e \in Range(TfcdGet(tfcd, n)) : Below(e.Diff, diffThreshold)

\* The same statement for the thresholds that are numbers.
WrittenIffNeighbourBelowNumeric ==
    ~diffThreshold.nan => C9_WrittenIffNeighbourBelow

====
